---- MODULE Spec2Model ----
(***************************************************************************)
(* Inventory transaction engine of GestionStock: the SQLite-backed stock   *)
(* service (services/stock_service.py) over the schema of database.py.     *)
(*                                                                         *)
(* The database is a record of tables.  Every handler opens its own        *)
(* connection; Python's sqlite3 opens an implicit transaction before the   *)
(* first INSERT/UPDATE/DELETE, conn.commit() publishes the pending rows    *)
(* and conn.close() without a commit discards them.                        *)
(*                                                                         *)
(* Prices are REAL columns.  They are modelled as integers counting a      *)
(* dyadic unit (for instance quarters), on which IEEE double addition and  *)
(* multiplication are exact for the magnitudes used here.                  *)
(***************************************************************************)
EXTENDS Integers, Sequences, FiniteSets, TLC

\* ---------------------------------------------------------------- bounds
MaxProducts == 2
MaxLines == 3
MaxMovements == 2
MaxHeaders == 1
MaxConns == 2
MaxLedgerClock == 1
MaxLedgerMovements == 2
MaxClock == 2
MaxTradeHeaders == 2
MaxParties == 1

\* ---------------------------------------------------------- input domains
NULL == 0
\* Clock readings per calendar day.
TicksPerDay == 2
ProductIds == 1 .. MaxProducts
Skus == ProductIds
InitialQty == {0, 2}
InitialPrice == {1}
UpdateQty == {2}
MinQuantity == {1}
AdjustDelta == {-1}
\* Transaction lines (product_id, qty, price): a regular line for every
\* product id, and one line with a negative quantity and a negative price.
Lines ==
    {[product_id |-> p, qty |-> 2, price |-> 3] : p \in ProductIds}
        \cup {[product_id |-> 1, qty |-> -1, price |-> -2]}
ItemLists == UNION {[1 .. n -> Lines] : n \in 0 .. MaxLines}
\* Where the storage may raise during a transaction: nowhere (0), or on the
\* INSERT of the last line, after every earlier line has been applied.
Faults(items) == {0, Len(items)}
\* The calls of record_purchase / record_sale: any line list without a
\* supplier or customer, with or without a storage fault, and the short
\* lists under a supplier or customer id that does not exist.
TxnCalls ==
    UNION {{[party |-> NULL, items |-> items, fault |-> fault] :
                fault \in Faults(items)} : items \in ItemLists}
        \cup {[party |-> 1, items |-> items, fault |-> 0] :
                items \in {l \in ItemLists : Len(l) <= 1}}

\* The back office with its clock and its reports: single-line purchases
\* and sales of one unit of the first product, under no party or an existing
\* or missing one.
TradeLines == {[product_id |-> 1, qty |-> 1, price |-> 3]}
TradeItemLists == {<<l>> : l \in TradeLines}
\* No supplier or customer, or the first one registered.
PartyRefs == {NULL, 1}
AnyDelta == {-3, 0, 1}
Days == {0, 1}
Limits == {0, 1, 200}
CategoryNames == {"a", "b"}

\* Connections that run record_sale step by step against the same file.
Conns == 1 .. MaxConns
\* What each of them sells: one regular line.
ConcItemLists == {<<l>> : l \in {x \in Lines : x.qty > 0}}

\* What the connections that purchase and adjust work on: the first product,
\* which the concurrent sales name too.
SharedProductIds == {1}
SharedItemLists == {l \in ConcItemLists : l[1].product_id \in SharedProductIds}

VARIABLES db, last, pre, conn, writer

vars == <<db, last, pre, conn, writer>>

\* ------------------------------------------------------------- the schema
\* init_db: all tables empty (the seeded admin user plays no part here).
\* now is the reading of the clock behind CURRENT_TIMESTAMP and DATE('now');
\* it is kept with the tables because the SQL statements read it.
EmptyDb ==
    [products        |-> << >>,
     seq_products    |-> 0,
     suppliers       |-> 0,
     customers       |-> 0,
     purchases       |-> << >>,
     purchase_lines  |-> << >>,
     sales           |-> << >>,
     sale_lines      |-> << >>,
     stock_movements |-> << >>,
     categories      |-> << >>,
     now             |-> 0]

\* -------------------------------------------------- connection life cycle
\* conn.commit(): the pending rows become the stored rows.
commit(stored, pending) == pending

\* (slip: close() that keeps what the transaction has written so far)
close_keeps_pending(stored, pending) == pending

\* conn.close() in the finally clause with an uncommitted transaction:
\* sqlite3 rolls the pending rows back.
close(stored, pending) == stored

Ok(d) == [ok |-> TRUE, db |-> d]
Raise(d) == [ok |-> FALSE, db |-> d]

\* ------------------------------------------------------------- statements
\* FOREIGN KEY (product_id) REFERENCES products(id), enforced by
\* PRAGMA foreign_keys = ON.
product_exists(d, product_id) == product_id \in DOMAIN d.products

party_ref_ok(count, id) == id = NULL \/ id \in 1 .. count

\* (slip: the foreign key of stock_movements is not enforced)
log_movement_unchecked(d, product_id, quantity, movement_type, note) ==
    Ok([d EXCEPT !.stock_movements =
           Append(@, [product_id    |-> product_id,
                      quantity      |-> quantity,
                      movement_type |-> movement_type,
                      note          |-> note,
                      created_at    |-> d.now])])

\* INSERT INTO stock_movements (product_id, quantity, movement_type, note):
\* created_at DEFAULT CURRENT_TIMESTAMP
log_movement(d, product_id, quantity, movement_type, note) ==
    IF ~product_exists(d, product_id) THEN Raise(d)
    ELSE Ok([d EXCEPT !.stock_movements =
                Append(@, [product_id    |-> product_id,
                           quantity      |-> quantity,
                           movement_type |-> movement_type,
                           note          |-> note,
                           created_at    |-> d.now])])

\* INSERT INTO purchases (supplier_id): date DEFAULT CURRENT_TIMESTAMP,
\* total_amount DEFAULT 0
insert_purchase(d, supplier_id) ==
    IF ~party_ref_ok(d.suppliers, supplier_id) THEN Raise(d)
    ELSE Ok([d EXCEPT !.purchases =
                Append(@, [supplier_id  |-> supplier_id,
                           date         |-> d.now,
                           total_amount |-> 0])])

\* INSERT INTO purchase_lines (purchase_id, product_id, quantity, price)
insert_purchase_line(d, purchase_id, product_id, qty, price) ==
    IF ~product_exists(d, product_id) \/ purchase_id \notin DOMAIN d.purchases
    THEN Raise(d)
    ELSE Ok([d EXCEPT !.purchase_lines =
                Append(@, [purchase_id |-> purchase_id,
                           product_id  |-> product_id,
                           quantity    |-> qty,
                           price       |-> price])])

\* (slip: SET quantity = ? instead of quantity + ?)
update_purchase_product_overwrite(d, product_id, qty, price) ==
    IF ~product_exists(d, product_id) THEN d
    ELSE [d EXCEPT !.products[product_id].quantity = qty,
                   !.products[product_id].purchase_price = price]

\* (slip: purchase_price = MAX(purchase_price, ?): the cost only rises)
update_purchase_product_highest(d, product_id, qty, price) ==
    IF ~product_exists(d, product_id) THEN d
    ELSE [d EXCEPT !.products[product_id].quantity = @ + qty,
                   !.products[product_id].purchase_price =
                       IF price > @ THEN price ELSE @]

\* UPDATE products SET quantity = quantity + ?, purchase_price = ? WHERE id=?
update_purchase_product(d, product_id, qty, price) ==
    IF ~product_exists(d, product_id) THEN d
    ELSE [d EXCEPT !.products[product_id].quantity = @ + qty,
                   !.products[product_id].purchase_price = price]

\* (slip: the header keeps its DEFAULT 0 total)
update_purchase_total_skipped(d, purchase_id, total) == d

\* UPDATE purchases SET total_amount=? WHERE id=?
update_purchase_total(d, purchase_id, total) ==
    [d EXCEPT !.purchases[purchase_id].total_amount = total]

\* INSERT INTO sales (customer_id, payment_method): date DEFAULT
\* CURRENT_TIMESTAMP, total_amount DEFAULT 0
insert_sale(d, customer_id, payment_method) ==
    IF ~party_ref_ok(d.customers, customer_id) THEN Raise(d)
    ELSE Ok([d EXCEPT !.sales =
                Append(@, [customer_id    |-> customer_id,
                           payment_method |-> payment_method,
                           date           |-> d.now,
                           total_amount   |-> 0])])

\* INSERT INTO sale_lines (sale_id, product_id, quantity, price)
insert_sale_line(d, sale_id, product_id, qty, price) ==
    IF ~product_exists(d, product_id) \/ sale_id \notin DOMAIN d.sales
    THEN Raise(d)
    ELSE Ok([d EXCEPT !.sale_lines =
                Append(@, [sale_id    |-> sale_id,
                           product_id |-> product_id,
                           quantity   |-> qty,
                           price      |-> price])])

\* UPDATE products SET quantity = quantity - ? WHERE id=?
update_sale_product(d, product_id, qty) ==
    IF ~product_exists(d, product_id) THEN d
    ELSE [d EXCEPT !.products[product_id].quantity = @ - qty]

\* UPDATE sales SET total_amount=? WHERE id=?
update_sale_total(d, sale_id, total) ==
    [d EXCEPT !.sales[sale_id].total_amount = total]

\* --------------------------------------------------------------- handlers
Result(d, status, ret) == [db |-> d, status |-> status, ret |-> ret]

\* (slip: sku without its UNIQUE constraint)
add_product_no_unique(d, name, sku, purchase_price, quantity, min_quantity) ==
    LET id == d.seq_products + 1
        d1 == commit(d, [d EXCEPT
                  !.seq_products = id,
                  !.products = [p \in DOMAIN @ \cup {id} |->
                      IF p = id
                      THEN [name           |-> name,
                            sku            |-> sku,
                            purchase_price |-> purchase_price,
                            quantity       |-> quantity,
                            min_quantity   |-> min_quantity]
                      ELSE @[p]]])
    IN  IF quantity # 0
        THEN Result(commit(d1, log_movement(d1, id, quantity, "IN", <<"Initial stock">>).db),
                    "ok", TRUE)
        ELSE Result(d1, "ok", TRUE)

\* add_product: INSERT, commit, then the "Initial stock" movement (only when
\* quantity is truthy) and a second commit.  sku is UNIQUE; the
\* IntegrityError is caught and reported as False.  AUTOINCREMENT never
\* reuses an id.
add_product(d, name, sku, purchase_price, quantity, min_quantity) ==
    IF \E p \in DOMAIN d.products : d.products[p].sku = sku
    THEN Result(close(d, d), "ok", FALSE)
    ELSE LET id == d.seq_products + 1
             d1 == commit(d, [d EXCEPT
                       !.seq_products = id,
                       !.products = [p \in DOMAIN @ \cup {id} |->
                           IF p = id
                           THEN [name           |-> name,
                                 sku            |-> sku,
                                 purchase_price |-> purchase_price,
                                 quantity       |-> quantity,
                                 min_quantity   |-> min_quantity]
                           ELSE @[p]]])
         IN  IF quantity # 0
             THEN Result(commit(d1, log_movement(d1, id, quantity, "IN", <<"Initial stock">>).db),
                         "ok", TRUE)
             ELSE Result(d1, "ok", TRUE)

\* update_product: UPDATE products SET ..., quantity=? WHERE id=?; commit.
\* No row matches a missing id; a duplicate sku raises IntegrityError.
update_product(d, product_id, name, sku, purchase_price, quantity, min_quantity) ==
    IF ~product_exists(d, product_id) THEN Result(commit(d, d), "ok", NULL)
    ELSE IF \E p \in DOMAIN d.products \ {product_id} : d.products[p].sku = sku
    THEN Result(close(d, d), "IntegrityError", NULL)
    ELSE Result(commit(d, [d EXCEPT !.products[product_id] =
                              [name           |-> name,
                               sku            |-> sku,
                               purchase_price |-> purchase_price,
                               quantity       |-> quantity,
                               min_quantity   |-> min_quantity]]),
                "ok", NULL)

product_referenced(d, product_id) ==
    \/ \E i \in DOMAIN d.stock_movements : d.stock_movements[i].product_id = product_id
    \/ \E i \in DOMAIN d.purchase_lines : d.purchase_lines[i].product_id = product_id
    \/ \E i \in DOMAIN d.sale_lines : d.sale_lines[i].product_id = product_id

\* (slip: the connection without PRAGMA foreign_keys = ON: the row goes,
\* the rows that reference it stay)
delete_product_unchecked(d, product_id) ==
    IF ~product_exists(d, product_id) THEN Result(commit(d, d), "ok", NULL)
    ELSE Result(commit(d, [d EXCEPT !.products =
                              [p \in DOMAIN @ \ {product_id} |-> @[p]]]),
                "ok", NULL)

\* (slip: the rows that reference the product go with it, as under
\* ON DELETE CASCADE)
delete_product_cascade(d, product_id) ==
    IF ~product_exists(d, product_id) THEN Result(commit(d, d), "ok", NULL)
    ELSE Result(commit(d, [d EXCEPT
                    !.products = [p \in DOMAIN @ \ {product_id} |-> @[p]],
                    !.stock_movements = SelectSeq(@, LAMBDA m : m.product_id # product_id),
                    !.purchase_lines = SelectSeq(@, LAMBDA l : l.product_id # product_id),
                    !.sale_lines = SelectSeq(@, LAMBDA l : l.product_id # product_id)]),
                "ok", NULL)

\* delete_product: DELETE FROM products WHERE id=?; commit.  The foreign
\* keys of stock_movements, purchase_lines and sale_lines restrict it.
delete_product(d, product_id) ==
    IF ~product_exists(d, product_id) THEN Result(commit(d, d), "ok", NULL)
    ELSE IF product_referenced(d, product_id)
    THEN Result(close(d, d), "IntegrityError", NULL)
    ELSE Result(commit(d, [d EXCEPT !.products =
                              [p \in DOMAIN @ \ {product_id} |-> @[p]]]),
                "ok", NULL)

\* (slip: SET quantity = MAX(0, quantity + ?))
adjust_stock_floored(d, product_id, quantity_delta, note) ==
    LET d1 == IF product_exists(d, product_id)
              THEN [d EXCEPT !.products[product_id].quantity =
                       IF @ + quantity_delta < 0 THEN 0 ELSE @ + quantity_delta]
              ELSE d
        r  == log_movement(d1, product_id, quantity_delta, "ADJUST", note)
    IN  IF r.ok THEN Result(commit(d, r.db), "ok", NULL)
        ELSE Result(close(d, r.db), "IntegrityError", NULL)

\* adjust_stock: UPDATE quantity = quantity + ?, _log_movement, commit.
adjust_stock(d, product_id, quantity_delta, note) ==
    LET d1 == IF product_exists(d, product_id)
              THEN [d EXCEPT !.products[product_id].quantity = @ + quantity_delta]
              ELSE d
        r  == log_movement(d1, product_id, quantity_delta, "ADJUST", note)
    IN  IF r.ok THEN Result(commit(d, r.db), "ok", NULL)
        ELSE Result(close(d, r.db), "IntegrityError", NULL)

\* One iteration of the for loop of record_purchase.
purchase_line(d, purchase_id, item) ==
    LET r == insert_purchase_line(d, purchase_id, item.product_id, item.qty, item.price)
    IN  IF ~r.ok THEN r
        ELSE log_movement(
                 update_purchase_product(r.db, item.product_id, item.qty, item.price),
                 item.product_id, item.qty, "IN", <<"Purchase #", purchase_id>>)

\* The for loop of record_purchase from line i on, with the running total.
\* fault = i: the storage raises (OperationalError) on the INSERT of line i.
RECURSIVE purchase_loop(_, _, _, _, _, _)
purchase_loop(d, purchase_id, items, i, total, fault) ==
    IF i > Len(items)
    THEN [ok |-> TRUE, db |-> d, total |-> total, error |-> "ok"]
    ELSE IF fault = i
    THEN [ok |-> FALSE, db |-> d, total |-> total, error |-> "OperationalError"]
    ELSE LET r == purchase_line(d, purchase_id, items[i])
         IN  IF ~r.ok
             THEN [ok |-> FALSE, db |-> r.db, total |-> total, error |-> "IntegrityError"]
             ELSE purchase_loop(r.db, purchase_id, items, i + 1,
                                total + items[i].qty * items[i].price, fault)

\* record_purchase(supplier_id, items) -> purchase id
record_purchase(d, supplier_id, items, fault) ==
    LET h == insert_purchase(d, supplier_id)
    IN  IF ~h.ok THEN Result(close(d, h.db), "IntegrityError", NULL)
        ELSE LET purchase_id == Len(h.db.purchases)
                 r == purchase_loop(h.db, purchase_id, items, 1, 0, fault)
             IN  IF ~r.ok THEN Result(close(d, r.db), r.error, NULL)
                 ELSE Result(commit(d, update_purchase_total(r.db, purchase_id, r.total)),
                             "ok", purchase_id)

\* (slip: only line i is checked, the loop does not go on)
sale_check_one_line(d, items, i) ==
    IF i > Len(items) THEN 0
    ELSE IF \/ ~product_exists(d, items[i].product_id)
            \/ d.products[items[i].product_id].quantity < items[i].qty
    THEN i
    ELSE 0

\* The availability loop of record_sale: the index of the first line whose
\* product is missing or holds less than the line asks for, 0 when none.
RECURSIVE sale_check(_, _, _)
sale_check(d, items, i) ==
    IF i > Len(items) THEN 0
    ELSE IF \/ ~product_exists(d, items[i].product_id)
            \/ d.products[items[i].product_id].quantity < items[i].qty
    THEN i
    ELSE sale_check(d, items, i + 1)

\* (slip: the movement is logged with +qty)
sale_line_unsigned(d, sale_id, item) ==
    LET r == insert_sale_line(d, sale_id, item.product_id, item.qty, item.price)
    IN  IF ~r.ok THEN r
        ELSE log_movement(
                 update_sale_product(r.db, item.product_id, item.qty),
                 item.product_id, item.qty, "OUT", <<"Sale #", sale_id>>)

\* One iteration of the second for loop of record_sale.
sale_line(d, sale_id, item) ==
    LET r == insert_sale_line(d, sale_id, item.product_id, item.qty, item.price)
    IN  IF ~r.ok THEN r
        ELSE log_movement(
                 update_sale_product(r.db, item.product_id, item.qty),
                 item.product_id, 0 - item.qty, "OUT", <<"Sale #", sale_id>>)

RECURSIVE sale_loop(_, _, _, _, _, _)
sale_loop(d, sale_id, items, i, total, fault) ==
    IF i > Len(items)
    THEN [ok |-> TRUE, db |-> d, total |-> total, error |-> "ok"]
    ELSE IF fault = i
    THEN [ok |-> FALSE, db |-> d, total |-> total, error |-> "OperationalError"]
    ELSE LET r == sale_line(d, sale_id, items[i])
         IN  IF ~r.ok
             THEN [ok |-> FALSE, db |-> r.db, total |-> total, error |-> "IntegrityError"]
             ELSE sale_loop(r.db, sale_id, items, i + 1,
                            total + items[i].qty * items[i].price, fault)

\* record_sale(customer_id, payment_method, items) -> sale id
record_sale(d, customer_id, payment_method, items, fault) ==
    IF sale_check(d, items, 1) # 0 THEN Result(close(d, d), "ValueError", NULL)
    ELSE LET h == insert_sale(d, customer_id, payment_method)
         IN  IF ~h.ok THEN Result(close(d, h.db), "IntegrityError", NULL)
             ELSE LET sale_id == Len(h.db.sales)
                      r == sale_loop(h.db, sale_id, items, 1, 0, fault)
                  IN  IF ~r.ok THEN Result(close(d, r.db), r.error, NULL)
                      ELSE Result(commit(d, update_sale_total(r.db, sale_id, r.total)),
                                  "ok", sale_id)

\* add_supplier: INSERT INTO suppliers; commit.  Only the number of rows is
\* kept: ids are 1 .. suppliers and no supplier is ever deleted.
add_supplier(d) ==
    Result(commit(d, [d EXCEPT !.suppliers = @ + 1]), "ok", NULL)

\* add_customer: INSERT INTO customers; commit.
add_customer(d) ==
    Result(commit(d, [d EXCEPT !.customers = @ + 1]), "ok", NULL)

\* add_category: INSERT INTO categories (name UNIQUE NOT NULL); commit and
\* True, or False on IntegrityError.
add_category(d, name) ==
    IF \E i \in DOMAIN d.categories : d.categories[i] = name
    THEN Result(close(d, d), "ok", FALSE)
    ELSE Result(commit(d, [d EXCEPT !.categories = Append(@, name)]), "ok", TRUE)

\* ---------------------------------------------------------------- reports
\* DATE(t): the calendar date of a timestamp, a day number.
DATE(t) == t \div TicksPerDay

\* (slip: quantity < min_quantity)
low_stock_strict(d) ==
    LET ids == {p \in DOMAIN d.products :
                   d.products[p].quantity < d.products[p].min_quantity}
    IN  {r \in [1 .. Cardinality(ids) -> ids] :
            /\ \A i, j \in DOMAIN r : i # j => r[i] # r[j]
            /\ \A i, j \in DOMAIN r :
                   i < j => d.products[r[i]].quantity <= d.products[r[j]].quantity}

\* low_stock: SELECT * FROM products WHERE quantity <= min_quantity ORDER BY
\* quantity.  The order among equal quantities is not specified by the
\* statement: every order the statement allows is a possible result (the
\* rows are given by their ids).
low_stock(d) ==
    LET ids == {p \in DOMAIN d.products :
                   d.products[p].quantity <= d.products[p].min_quantity}
    IN  {r \in [1 .. Cardinality(ids) -> ids] :
            /\ \A i, j \in DOMAIN r : i # j => r[i] # r[j]
            /\ \A i, j \in DOMAIN r :
                   i < j => d.products[r[i]].quantity <= d.products[r[j]].quantity}

RECURSIVE sum_total_amount(_)
\* SUM(total_amount) over header rows
sum_total_amount(headers) ==
    IF headers = << >> THEN 0
    ELSE Head(headers).total_amount + sum_total_amount(Tail(headers))

RECURSIVE group_by_date(_, _)
\* GROUP BY DATE(date) ORDER BY DATE(date) over the rows kept by WHERE: one
\* (d, total) pair per date in dates, smallest date first.
group_by_date(headers, dates) ==
    IF dates = {} THEN << >>
    ELSE LET day == CHOOSE x \in dates : \A y \in dates : x <= y
         IN  <<[d |-> day,
                total |-> sum_total_amount(
                    SelectSeq(headers, LAMBDA h : DATE(h.date) = day))]>>
                 \o group_by_date(headers, dates \ {day})

\* (slip: no GROUP BY, one pair per header)
daily_totals_ungrouped(headers, now, days) ==
    LET kept == SelectSeq(headers, LAMBDA h : DATE(h.date) >= DATE(now) - days)
    IN  [i \in DOMAIN kept |-> [d |-> DATE(kept[i].date), total |-> kept[i].total_amount]]

\* The statement of sales_totals / purchase_totals:
\* WHERE DATE(date) >= DATE('now', '-<days> day')
daily_totals(headers, now, days) ==
    LET kept == SelectSeq(headers, LAMBDA h : DATE(h.date) >= DATE(now) - days)
    IN  group_by_date(kept, {DATE(kept[i].date) : i \in DOMAIN kept})

sales_totals(d, days) == daily_totals(d.sales, d.now, days)

purchase_totals(d, days) == daily_totals(d.purchases, d.now, days)

RECURSIVE newest_first(_, _)
\* ORDER BY sm.created_at DESC, sm.id DESC over the movement ids in ids
newest_first(d, ids) ==
    IF ids = {} THEN << >>
    ELSE LET top == CHOOSE i \in ids : \A j \in ids :
                        \/ d.stock_movements[i].created_at > d.stock_movements[j].created_at
                        \/ /\ d.stock_movements[i].created_at = d.stock_movements[j].created_at
                           /\ i >= j
         IN  <<top>> \o newest_first(d, ids \ {top})

\* (slip: ORDER BY sm.created_at, sm.id: oldest first)
list_stock_movements_oldest(d, limit) ==
    LET joined == {i \in DOMAIN d.stock_movements :
                      d.stock_movements[i].product_id \in DOMAIN d.products}
        ordered == newest_first(d, joined)
        n == IF limit < 0 \/ limit > Len(ordered) THEN Len(ordered) ELSE limit
    IN  [k \in 1 .. n |->
            LET i == ordered[Len(ordered) + 1 - k]
            IN  [id |-> i,
                 movement |-> d.stock_movements[i],
                 product_name |-> d.products[d.stock_movements[i].product_id].name]]

\* list_stock_movements: SELECT sm.*, p.name AS product_name FROM
\* stock_movements sm JOIN products p ON p.id = sm.product_id ORDER BY
\* sm.created_at DESC, sm.id DESC LIMIT ? (a negative LIMIT is no limit)
list_stock_movements(d, limit) ==
    LET joined == {i \in DOMAIN d.stock_movements :
                      d.stock_movements[i].product_id \in DOMAIN d.products}
        ordered == newest_first(d, joined)
        n == IF limit < 0 \/ limit > Len(ordered) THEN Len(ordered) ELSE limit
    IN  [k \in 1 .. n |->
            LET i == ordered[k]
            IN  [id |-> i,
                 movement |-> d.stock_movements[i],
                 product_name |-> d.products[d.stock_movements[i].product_id].name]]

\* (slip: the two sums taken from each other's table)
metrics_swapped(d) ==
    [products  |-> Cardinality(DOMAIN d.products),
     suppliers |-> d.suppliers,
     customers |-> d.customers,
     revenue   |-> sum_total_amount(d.purchases),
     purchases |-> sum_total_amount(d.sales)]

\* metrics: COUNT(*) of products, suppliers and customers,
\* COALESCE(SUM(total_amount), 0) of sales and of purchases
metrics(d) ==
    [products  |-> Cardinality(DOMAIN d.products),
     suppliers |-> d.suppliers,
     customers |-> d.customers,
     revenue   |-> sum_total_amount(d.sales),
     purchases |-> sum_total_amount(d.purchases)]

\* ---------------------------------------------------------------- actions
\* db is the stored database, last the call that has just returned (with its
\* arguments and outcome) and pre the database that call started from.
Idle == [op |-> "idle", args |-> [none |-> NULL], status |-> "ok", ret |-> NULL]

Called(op, args, r) ==
    /\ Len(r.db.stock_movements) <= MaxMovements
    /\ Len(r.db.purchases) <= MaxHeaders
    /\ Len(r.db.sales) <= MaxHeaders
    /\ r.db.seq_products <= MaxProducts
    /\ writer = NULL
    /\ db' = r.db
    /\ pre' = db
    /\ last' = [op |-> op, args |-> args, status |-> r.status, ret |-> r.ret]
    /\ UNCHANGED <<conn, writer>>

\* SKUs the callers pass: each product is created under the SKU numbered like
\* the id it will get, or under a SKU some product already uses.  The name
\* passed is the one numbered like the SKU.
UsedSkus(d) == {d.products[p].sku : p \in DOMAIN d.products}

AddProduct ==
    /\ last.op = "idle"
    /\ \E sku \in UsedSkus(db) \cup ({db.seq_products + 1} \cap Skus),
          purchase_price \in InitialPrice, quantity \in InitialQty,
          min_quantity \in MinQuantity :
        Called("add_product",
               [name |-> sku, sku |-> sku, purchase_price |-> purchase_price,
                quantity |-> quantity, min_quantity |-> min_quantity],
               add_product(db, sku, sku, purchase_price, quantity, min_quantity))

UpdateProduct ==
    /\ last.op = "idle"
    /\ \E product_id \in ProductIds, sku \in UsedSkus(db),
       purchase_price \in InitialPrice, quantity \in UpdateQty,
       min_quantity \in MinQuantity :
        Called("update_product",
               [product_id |-> product_id, name |-> sku, sku |-> sku,
                purchase_price |-> purchase_price, quantity |-> quantity,
                min_quantity |-> min_quantity],
               update_product(db, product_id, sku, sku, purchase_price, quantity,
                              min_quantity))

DeleteProduct ==
    /\ last.op = "idle"
    /\ \E product_id \in ProductIds :
        Called("delete_product", [product_id |-> product_id],
               delete_product(db, product_id))

AdjustStock ==
    /\ last.op = "idle"
    /\ \E product_id \in ProductIds, quantity_delta \in AdjustDelta :
        Called("adjust_stock",
               [product_id |-> product_id, quantity_delta |-> quantity_delta],
               adjust_stock(db, product_id, quantity_delta, <<"Manual adjust">>))

RecordPurchase ==
    /\ last.op = "idle"
    /\ \E c \in TxnCalls :
        Called("record_purchase",
               [supplier_id |-> c.party, items |-> c.items, fault |-> c.fault],
               record_purchase(db, c.party, c.items, c.fault))

RecordSale ==
    /\ last.op = "idle"
    /\ \E c \in TxnCalls :
        Called("record_sale",
               [customer_id |-> c.party, items |-> c.items, fault |-> c.fault],
               record_sale(db, c.party, "cash", c.items, c.fault))

\* The caller has taken the result; the application is idle again.
Return ==
    /\ last.op # "idle"
    /\ last' = Idle
    /\ pre' = db
    /\ UNCHANGED <<db, conn, writer>>

\* A connection: the handler it runs (op, args, items), where it stands (pc,
\* i), its local variables (total, id), its pending rows (tx) and its outcome;
\* for a report, during is the connection whose transaction was open when the
\* SELECT ran.
IdleConn ==
    [pc |-> "idle", op |-> "idle", args |-> [none |-> NULL], party |-> NULL,
     items |-> << >>, i |-> 0, total |-> 0, id |-> NULL, tx |-> EmptyDb,
     during |-> NULL, status |-> "ok", ret |-> NULL]

Init ==
    /\ db = EmptyDb
    /\ pre = EmptyDb
    /\ last = Idle
    /\ conn = [c \in Conns |-> IdleConn]
    /\ writer = NULL

\* ------------------------------------------- record_sale, step by step
\* Each connection runs record_sale once, on its own sqlite3 connection.  The
\* SELECTs of the availability loop run outside any transaction and read the
\* stored database.  The first INSERT opens the implicit transaction and takes
\* the file's write lock (writer); from then on the connection works on its
\* pending copy tx until commit() stores it or close() drops it.
SaleStart(c) ==
    /\ conn[c].pc = "idle"
    /\ last.op = "idle"
    /\ \E items \in ConcItemLists :
        conn' = [conn EXCEPT ![c] =
                    [IdleConn EXCEPT !.pc = "check", !.op = "record_sale",
                                     !.items = items, !.i = 1]]
    /\ UNCHANGED <<db, last, pre, writer>>

\* for product_id, qty, _ in items: SELECT quantity ...; raise ValueError
SaleCheck(c) ==
    /\ conn[c].pc = "check"
    /\ LET k == conn[c].i
           items == conn[c].items
       IN  conn' = [conn EXCEPT ![c] =
              IF k > Len(items) THEN [@ EXCEPT !.pc = "insert"]
              ELSE IF sale_check(db, <<items[k]>>, 1) # 0
              THEN [@ EXCEPT !.pc = "done", !.status = "ValueError"]
              ELSE [@ EXCEPT !.i = k + 1]]
    /\ UNCHANGED <<db, last, pre, writer>>

\* INSERT INTO sales: takes the write lock; while another connection holds
\* it the statement waits, and gives up with "database is locked" when the
\* connection's timeout runs out first (SaleLocked).
SaleInsert(c) ==
    /\ conn[c].pc = "insert"
    /\ writer = NULL
    /\ LET h == insert_sale(db, conn[c].party, "cash")
       IN  IF h.ok
           THEN /\ writer' = c
                /\ conn' = [conn EXCEPT ![c] =
                       [@ EXCEPT !.pc = "lines", !.i = 1, !.tx = h.db,
                                 !.id = Len(h.db.sales), !.total = 0]]
           ELSE /\ writer' = NULL
                /\ conn' = [conn EXCEPT ![c] =
                       [@ EXCEPT !.pc = "done", !.status = "IntegrityError"]]
    /\ UNCHANGED <<db, last, pre>>

SaleLocked(c) ==
    /\ conn[c].pc = "insert"
    /\ writer \notin {NULL, c}
    /\ conn' = [conn EXCEPT ![c] =
           [@ EXCEPT !.pc = "done", !.status = "OperationalError"]]
    /\ UNCHANGED <<db, last, pre, writer>>

\* One iteration of the second loop, on the pending copy.
SaleLine(c) ==
    /\ conn[c].pc = "lines"
    /\ writer = c
    /\ conn[c].i <= Len(conn[c].items)
    /\ LET item == conn[c].items[conn[c].i]
           r == sale_line(conn[c].tx, conn[c].id, item)
       IN  IF r.ok
           THEN /\ conn' = [conn EXCEPT ![c] =
                       [@ EXCEPT !.tx = r.db, !.i = @ + 1,
                                 !.total = @ + item.qty * item.price]]
                /\ UNCHANGED <<db, writer>>
           ELSE /\ conn' = [conn EXCEPT ![c] =
                       [@ EXCEPT !.pc = "done", !.status = "IntegrityError",
                                 !.tx = EmptyDb]]
                /\ db' = close(db, r.db)
                /\ writer' = NULL
    /\ UNCHANGED <<last, pre>>

\* UPDATE sales SET total_amount; conn.commit(); return sale_id
SaleCommit(c) ==
    /\ conn[c].pc = "lines"
    /\ writer = c
    /\ conn[c].i > Len(conn[c].items)
    /\ db' = commit(db, update_sale_total(conn[c].tx, conn[c].id, conn[c].total))
    /\ writer' = NULL
    /\ conn' = [conn EXCEPT ![c] =
           [@ EXCEPT !.pc = "done", !.status = "ok", !.ret = conn[c].id,
                     !.tx = EmptyDb]]
    /\ UNCHANGED <<last, pre>>

AllIdle == \A c \in Conns : conn[c].pc = "idle"

Next ==
    \/ AddProduct
    \/ UpdateProduct
    \/ DeleteProduct
    \/ AdjustStock
    \/ RecordPurchase
    \/ RecordSale
    \/ Return

Spec == Init /\ [][Next]_vars

\* ------------------------------------------ the back office and its reports
CalledLedger(op, args, r) ==
    /\ Len(r.db.stock_movements) <= MaxLedgerMovements
    /\ r.db.seq_products <= MaxProducts
    /\ db' = r.db
    /\ pre' = db
    /\ last' = [op |-> op, args |-> args, status |-> r.status, ret |-> r.ret]
    /\ UNCHANGED <<conn, writer>>

CalledTrade(op, args, r) ==
    /\ Len(r.db.purchases) + Len(r.db.sales) <= MaxTradeHeaders
    /\ r.db.seq_products <= MaxProducts
    /\ r.db.suppliers <= MaxParties
    /\ r.db.customers <= MaxParties
    /\ db' = r.db
    /\ pre' = db
    /\ last' = [op |-> op, args |-> args, status |-> r.status, ret |-> r.ret]
    /\ UNCHANGED <<conn, writer>>

\* A read-only call: the result is returned, nothing is stored.
Reported(op, args, ret) ==
    /\ db' = db
    /\ pre' = db
    /\ last' = [op |-> op, args |-> args, status |-> "ok", ret |-> ret]
    /\ UNCHANGED <<conn, writer>>

\* Time passes between two calls, up to the clock reading max.
TickTo(max) ==
    /\ last.op = "idle"
    /\ db.now < max
    /\ db' = [db EXCEPT !.now = @ + 1]
    /\ pre' = db'
    /\ UNCHANGED <<last, conn, writer>>

\* The stock side: products, manual adjustments, the low-stock list and the
\* movement history.
LedgerTick == TickTo(MaxLedgerClock)

LedgerAddProduct ==
    /\ last.op = "idle"
    /\ \E sku \in {db.seq_products + 1} \cap Skus,
          purchase_price \in InitialPrice, quantity \in InitialQty,
          min_quantity \in MinQuantity :
        CalledLedger("add_product",
               [name |-> sku, sku |-> sku, purchase_price |-> purchase_price,
                quantity |-> quantity, min_quantity |-> min_quantity],
               add_product(db, sku, sku, purchase_price, quantity, min_quantity))

LedgerAdjustStock ==
    /\ last.op = "idle"
    /\ \E product_id \in ProductIds, quantity_delta \in AnyDelta :
        CalledLedger("adjust_stock",
               [product_id |-> product_id, quantity_delta |-> quantity_delta,
                note |-> <<"Manual adjust">>],
               adjust_stock(db, product_id, quantity_delta, <<"Manual adjust">>))

LowStock ==
    /\ last.op = "idle"
    /\ \E rows \in low_stock(db) : Reported("low_stock", [none |-> NULL], rows)

ListStockMovements ==
    /\ last.op = "idle"
    /\ \E limit \in Limits :
        Reported("list_stock_movements", [limit |-> limit],
                 list_stock_movements(db, limit))

NextLedger ==
    \/ LedgerAddProduct
    \/ LedgerAdjustStock
    \/ LedgerTick
    \/ LowStock
    \/ ListStockMovements
    \/ Return

SpecLedger == Init /\ [][NextLedger]_vars

\* The trading side: purchases and sales over the days, suppliers and
\* customers, the daily totals and the dashboard figures.
TradeTick == TickTo(MaxClock)

\* The catalogue is built before trading starts.
TradeAddProduct ==
    /\ last.op = "idle"
    /\ db.now = 0
    /\ db.purchases = << >>
    /\ db.sales = << >>
    /\ \E sku \in {db.seq_products + 1} \cap Skus,
          purchase_price \in InitialPrice, quantity \in InitialQty,
          min_quantity \in MinQuantity :
        CalledTrade("add_product",
               [name |-> sku, sku |-> sku, purchase_price |-> purchase_price,
                quantity |-> quantity, min_quantity |-> min_quantity],
               add_product(db, sku, sku, purchase_price, quantity, min_quantity))

TradePurchase ==
    /\ last.op = "idle"
    /\ \E supplier_id \in PartyRefs, items \in TradeItemLists :
        CalledTrade("record_purchase",
               [supplier_id |-> supplier_id, items |-> items, fault |-> 0],
               record_purchase(db, supplier_id, items, 0))

TradeSale ==
    /\ last.op = "idle"
    /\ \E customer_id \in PartyRefs, items \in TradeItemLists :
        CalledTrade("record_sale",
               [customer_id |-> customer_id, items |-> items, fault |-> 0],
               record_sale(db, customer_id, "cash", items, 0))

\* Suppliers and customers are registered before the first header.
AddSupplier ==
    /\ last.op = "idle"
    /\ db.purchases = << >>
    /\ db.sales = << >>
    /\ CalledTrade("add_supplier", [none |-> NULL], add_supplier(db))

AddCustomer ==
    /\ last.op = "idle"
    /\ db.purchases = << >>
    /\ db.sales = << >>
    /\ CalledTrade("add_customer", [none |-> NULL], add_customer(db))

SalesTotals ==
    /\ last.op = "idle"
    /\ \E days \in Days :
        Reported("sales_totals", [days |-> days], sales_totals(db, days))

PurchaseTotals ==
    /\ last.op = "idle"
    /\ \E days \in Days :
        Reported("purchase_totals", [days |-> days], purchase_totals(db, days))

Metrics ==
    /\ last.op = "idle"
    /\ Reported("metrics", [none |-> NULL], metrics(db))

NextTrade ==
    \/ TradeAddProduct
    \/ TradePurchase
    \/ TradeSale
    \/ AddSupplier
    \/ AddCustomer
    \/ TradeTick
    \/ SalesTotals
    \/ PurchaseTotals
    \/ Metrics
    \/ Return

SpecTrade == Init /\ [][NextTrade]_vars

\* The catalogue: products and categories.
AddCategory ==
    /\ last.op = "idle"
    /\ \E name \in CategoryNames :
        Called("add_category", [name |-> name], add_category(db, name))

NextCatalog ==
    \/ AddProduct
    \/ UpdateProduct
    \/ DeleteProduct
    \/ AddCategory
    \/ Return

SpecCatalog == Init /\ [][NextCatalog]_vars

\* Sales on concurrent connections over a catalogue built beforehand.
StockUp == AllIdle /\ AddProduct

StockedUp == AllIdle /\ Return

NextConc ==
    \/ StockUp
    \/ StockedUp
    \/ \E c \in Conns : SaleStart(c)
    \/ \E c \in Conns : SaleCheck(c)
    \/ \E c \in Conns : SaleInsert(c)
    \/ \E c \in Conns : SaleLocked(c)
    \/ \E c \in Conns : SaleLine(c)
    \/ \E c \in Conns : SaleCommit(c)

SpecConc == Init /\ [][NextConc]_vars

\* ------------------------------ every handler on concurrent connections
\* Several connections (processes of the application) work on one database
\* file.  SQLite lets one connection at a time write: the first INSERT or
\* UPDATE of a transaction takes the file's RESERVED lock, which is granted
\* only while no other connection holds it, and keeps it until commit() or
\* close().  A statement that cannot get the lock within the connection's
\* timeout raises OperationalError ("database is locked").

\* (slip: the lock is granted although another connection holds it)
lock_ignored(holder) == TRUE

\* The RESERVED lock can be granted.
lock_free(holder) == holder = NULL

\* (slip: read_uncommitted: a SELECT sees the writer's pending rows)
visible_uncommitted(stored, pending) == pending

\* What a SELECT of another connection reads: the stored rows, never the
\* rows pending in a writer's transaction.
visible(stored, pending) == stored

\* The rows pending in the open write transaction, the stored rows when there
\* is none.
Pending == IF writer = NULL THEN db ELSE conn[writer].tx

\* INSERT INTO products (name, sku, ..., quantity, min_quantity): sku UNIQUE,
\* id AUTOINCREMENT
insert_product(d, name, sku, purchase_price, quantity, min_quantity) ==
    IF \E p \in DOMAIN d.products : d.products[p].sku = sku THEN Raise(d)
    ELSE LET id == d.seq_products + 1
         IN  Ok([d EXCEPT
                 !.seq_products = id,
                 !.products = [p \in DOMAIN @ \cup {id} |->
                     IF p = id
                     THEN [name           |-> name,
                           sku            |-> sku,
                           purchase_price |-> purchase_price,
                           quantity       |-> quantity,
                           min_quantity   |-> min_quantity]
                     ELSE @[p]]])

\* The connection ends its handler: close() drops what is pending.
Ended(c, status, ret) ==
    [conn[c] EXCEPT !.pc = "done", !.status = status, !.ret = ret, !.tx = EmptyDb]

\* A handler is entered on connection c.
Started(c, op, pc, args, items) ==
    /\ conn' = [conn EXCEPT ![c] =
           [IdleConn EXCEPT !.pc = pc, !.op = op, !.args = args,
                            !.items = items, !.i = 1]]
    /\ UNCHANGED <<db, last, pre, writer>>

\* The first write statement of a transaction waits for the lock until the
\* timeout and raises OperationalError.
WriteLocked(c) ==
    /\ conn[c].pc \in {"purchase_insert", "adjust_update", "add_insert", "add_log"}
    /\ writer \notin {NULL, c}
    /\ conn' = [conn EXCEPT ![c] = Ended(c, "OperationalError", NULL)]
    /\ UNCHANGED <<db, last, pre, writer>>

\* conn.commit() of connection c with the pending rows tx.
Commits(c, tx) ==
    /\ db' = commit(db, tx)
    /\ writer' = NULL

\* An exception leaves the handler: close() in the finally clause.
Closes(c, tx) ==
    /\ db' = close(db, tx)
    /\ writer' = NULL

\* record_purchase, step by step.
PurchaseStart(c) ==
    /\ conn[c].pc = "idle"
    /\ last.op = "idle"
    /\ \E items \in SharedItemLists :
        Started(c, "record_purchase", "purchase_insert",
                [supplier_id |-> NULL], items)

\* INSERT INTO purchases: opens the transaction.
PurchaseInsert(c) ==
    /\ conn[c].pc = "purchase_insert"
    /\ lock_free(writer)
    /\ LET h == insert_purchase(db, conn[c].args.supplier_id)
       IN  IF h.ok
           THEN /\ writer' = c
                /\ conn' = [conn EXCEPT ![c] =
                       [@ EXCEPT !.pc = "purchase_lines", !.i = 1, !.tx = h.db,
                                 !.id = Len(h.db.purchases), !.total = 0]]
           ELSE /\ writer' = NULL
                /\ conn' = [conn EXCEPT ![c] = Ended(c, "IntegrityError", NULL)]
    /\ UNCHANGED <<db, last, pre>>

\* One iteration of the for loop, on the pending rows.
PurchaseLine(c) ==
    /\ conn[c].pc = "purchase_lines"
    /\ conn[c].i <= Len(conn[c].items)
    /\ LET item == conn[c].items[conn[c].i]
           r == purchase_line(conn[c].tx, conn[c].id, item)
       IN  IF r.ok
           THEN /\ conn' = [conn EXCEPT ![c] =
                       [@ EXCEPT !.tx = r.db, !.i = @ + 1,
                                 !.total = @ + item.qty * item.price]]
                /\ UNCHANGED <<db, writer>>
           ELSE /\ conn' = [conn EXCEPT ![c] = Ended(c, "IntegrityError", NULL)]
                /\ Closes(c, r.db)
    /\ UNCHANGED <<last, pre>>

\* UPDATE purchases SET total_amount; conn.commit(); return purchase_id
PurchaseCommit(c) ==
    /\ conn[c].pc = "purchase_lines"
    /\ conn[c].i > Len(conn[c].items)
    /\ Commits(c, update_purchase_total(conn[c].tx, conn[c].id, conn[c].total))
    /\ conn' = [conn EXCEPT ![c] = Ended(c, "ok", conn[c].id)]
    /\ UNCHANGED <<last, pre>>

\* adjust_stock, step by step.
AdjustStart(c) ==
    /\ conn[c].pc = "idle"
    /\ last.op = "idle"
    /\ \E product_id \in SharedProductIds, quantity_delta \in AdjustDelta :
        Started(c, "adjust_stock", "adjust_update",
                [product_id |-> product_id, quantity_delta |-> quantity_delta,
                 note |-> <<"Manual adjust">>], << >>)

\* UPDATE products SET quantity = quantity + ? WHERE id=?: opens the
\* transaction and computes the new quantity from the stored one.
AdjustUpdate(c) ==
    /\ conn[c].pc = "adjust_update"
    /\ lock_free(writer)
    /\ writer' = c
    /\ conn' = [conn EXCEPT ![c] =
           [@ EXCEPT !.pc = "adjust_log",
                     !.tx = IF product_exists(db, conn[c].args.product_id)
                            THEN [db EXCEPT !.products[conn[c].args.product_id].quantity =
                                     @ + conn[c].args.quantity_delta]
                            ELSE db]]
    /\ UNCHANGED <<db, last, pre>>

\* _log_movement(conn, product_id, quantity_delta, "ADJUST", note)
AdjustLog(c) ==
    /\ conn[c].pc = "adjust_log"
    /\ LET r == log_movement(conn[c].tx, conn[c].args.product_id,
                             conn[c].args.quantity_delta, "ADJUST", conn[c].args.note)
       IN  IF r.ok
           THEN /\ conn' = [conn EXCEPT ![c] = [@ EXCEPT !.pc = "adjust_commit", !.tx = r.db]]
                /\ UNCHANGED <<db, writer>>
           ELSE /\ conn' = [conn EXCEPT ![c] = Ended(c, "IntegrityError", NULL)]
                /\ Closes(c, r.db)
    /\ UNCHANGED <<last, pre>>

AdjustCommit(c) ==
    /\ conn[c].pc = "adjust_commit"
    /\ Commits(c, conn[c].tx)
    /\ conn' = [conn EXCEPT ![c] = Ended(c, "ok", NULL)]
    /\ UNCHANGED <<last, pre>>

\* add_product, step by step: the caller passes a SKU that no product had
\* when the form was opened.
AddStart(c) ==
    /\ conn[c].pc = "idle"
    /\ last.op = "idle"
    /\ \E sku \in {db.seq_products + 1} \cap Skus,
          purchase_price \in InitialPrice, quantity \in InitialQty,
          min_quantity \in MinQuantity :
        Started(c, "add_product", "add_insert",
                [name |-> sku, sku |-> sku, purchase_price |-> purchase_price,
                 quantity |-> quantity, min_quantity |-> min_quantity], << >>)

\* INSERT INTO products; the IntegrityError of a SKU taken in the meantime is
\* caught: return False.
AddInsert(c) ==
    /\ conn[c].pc = "add_insert"
    /\ lock_free(writer)
    /\ LET a == conn[c].args
           r == insert_product(db, a.name, a.sku, a.purchase_price, a.quantity,
                               a.min_quantity)
       IN  IF r.ok
           THEN /\ writer' = c
                /\ conn' = [conn EXCEPT ![c] =
                       [@ EXCEPT !.pc = "add_commit", !.tx = r.db,
                                 !.id = r.db.seq_products]]
           ELSE /\ writer' = NULL
                /\ conn' = [conn EXCEPT ![c] = Ended(c, "ok", FALSE)]
    /\ UNCHANGED <<db, last, pre>>

\* conn.commit() of the product row; if quantity: go on to the movement,
\* else return True.
AddCommit(c) ==
    /\ conn[c].pc = "add_commit"
    /\ Commits(c, conn[c].tx)
    /\ conn' = [conn EXCEPT ![c] =
           IF conn[c].args.quantity # 0
           THEN [@ EXCEPT !.pc = "add_log", !.tx = EmptyDb]
           ELSE Ended(c, "ok", TRUE)]
    /\ UNCHANGED <<last, pre>>

\* _log_movement(conn, last_insert_rowid(), quantity, "IN", "Initial stock"):
\* opens a second transaction.
AddLog(c) ==
    /\ conn[c].pc = "add_log"
    /\ lock_free(writer)
    /\ LET r == log_movement(db, conn[c].id, conn[c].args.quantity, "IN",
                             <<"Initial stock">>)
       IN  IF r.ok
           THEN /\ writer' = c
                /\ conn' = [conn EXCEPT ![c] = [@ EXCEPT !.pc = "add_logged", !.tx = r.db]]
           ELSE /\ writer' = NULL
                /\ conn' = [conn EXCEPT ![c] = Ended(c, "ok", FALSE)]
    /\ UNCHANGED <<db, last, pre>>

\* The second conn.commit(); return True.
AddLogCommit(c) ==
    /\ conn[c].pc = "add_logged"
    /\ Commits(c, conn[c].tx)
    /\ conn' = [conn EXCEPT ![c] = Ended(c, "ok", TRUE)]
    /\ UNCHANGED <<last, pre>>

\* The reports, each one SELECT on its own connection (metrics too: its five
\* figures are subqueries of one statement); tx keeps the rows the statement
\* read.
ReadStart(c) ==
    /\ conn[c].pc = "idle"
    /\ last.op = "idle"
    /\ \E call \in {[op |-> "low_stock", args |-> [none |-> NULL]],
                    [op |-> "list_stock_movements", args |-> [limit |-> 200]],
                    [op |-> "sales_totals", args |-> [days |-> 1]],
                    [op |-> "purchase_totals", args |-> [days |-> 1]],
                    [op |-> "metrics", args |-> [none |-> NULL]]} :
        Started(c, call.op, "select", call.args, << >>)

Select(c) ==
    /\ conn[c].pc = "select"
    /\ LET view == visible(db, Pending)
           rets == CASE conn[c].op = "low_stock" -> low_stock(view)
                     [] conn[c].op = "list_stock_movements" ->
                            {list_stock_movements(view, conn[c].args.limit)}
                     [] conn[c].op = "sales_totals" ->
                            {sales_totals(view, conn[c].args.days)}
                     [] conn[c].op = "purchase_totals" ->
                            {purchase_totals(view, conn[c].args.days)}
                     [] conn[c].op = "metrics" -> {metrics(view)}
       IN  \E ret \in rets :
               conn' = [conn EXCEPT ![c] =
                   [@ EXCEPT !.pc = "done", !.status = "ok", !.ret = ret,
                             !.tx = view, !.during = writer]]
    /\ UNCHANGED <<db, last, pre, writer>>

NextShared ==
    \/ StockUp
    \/ StockedUp
    \/ \E c \in Conns : SaleStart(c)
    \/ \E c \in Conns : SaleCheck(c)
    \/ \E c \in Conns : SaleInsert(c)
    \/ \E c \in Conns : SaleLocked(c)
    \/ \E c \in Conns : SaleLine(c)
    \/ \E c \in Conns : SaleCommit(c)
    \/ \E c \in Conns : PurchaseStart(c)
    \/ \E c \in Conns : PurchaseInsert(c)
    \/ \E c \in Conns : PurchaseLine(c)
    \/ \E c \in Conns : PurchaseCommit(c)
    \/ \E c \in Conns : AdjustStart(c)
    \/ \E c \in Conns : AdjustUpdate(c)
    \/ \E c \in Conns : AdjustLog(c)
    \/ \E c \in Conns : AdjustCommit(c)
    \/ \E c \in Conns : AddStart(c)
    \/ \E c \in Conns : AddInsert(c)
    \/ \E c \in Conns : AddCommit(c)
    \/ \E c \in Conns : AddLog(c)
    \/ \E c \in Conns : AddLogCommit(c)
    \/ \E c \in Conns : WriteLocked(c)
    \/ \E c \in Conns : ReadStart(c)
    \/ \E c \in Conns : Select(c)

SpecShared == Init /\ [][NextShared]_vars

\* ------------------------------------------------------------ properties
RECURSIVE QtyNaming(_, _)
\* The summed quantity of the lines of items that name product p.
QtyNaming(items, p) ==
    IF items = << >> THEN 0
    ELSE (IF Head(items).product_id = p THEN Head(items).qty ELSE 0)
             + QtyNaming(Tail(items), p)

RECURSIVE Amount(_)
\* The summed quantity x price of stored lines.
Amount(lines) ==
    IF lines = << >> THEN 0
    ELSE Head(lines).quantity * Head(lines).price + Amount(Tail(lines))

PurchaseLinesOf(d, h) == SelectSeq(d.purchase_lines, LAMBDA l : l.purchase_id = h)

SaleLinesOf(d, h) == SelectSeq(d.sale_lines, LAMBDA l : l.sale_id = h)

\* The rows appended to a table by the last call.
Appended(before, after) == SubSeq(after, Len(before) + 1, Len(after))

IsPrefix(before, after) ==
    /\ Len(before) <= Len(after)
    /\ SubSeq(after, 1, Len(before)) = before

OnHand(d, p) == d.products[p].quantity

\* Line k of items asks for more than product's on-hand quantity in d.
Insufficient(d, items, k) ==
    /\ items[k].product_id \in DOMAIN d.products
    /\ OnHand(d, items[k].product_id) < items[k].qty

Quantities(d) == [p \in DOMAIN d.products |-> d.products[p].quantity]

PurchasePrices(d) == [p \in DOMAIN d.products |-> d.products[p].purchase_price]

\* C1: a product whose quantity is >= 0 before record_sale has a quantity
\* >= 0 after it, whatever the lines (a product may be on several lines); a
\* sale that would take a product below zero is rejected and changes no
\* quantity.
C1_SaleKeepsQuantityNonNegative ==
    last.op = "record_sale" =>
        /\ \A p \in DOMAIN pre.products :
               OnHand(pre, p) >= 0 => p \in DOMAIN db.products /\ OnHand(db, p) >= 0
        /\ (\E p \in DOMAIN pre.products :
                OnHand(pre, p) >= 0 /\ OnHand(pre, p) - QtyNaming(last.args.items, p) < 0)
               => last.status # "ok" /\ Quantities(db) = Quantities(pre)

\* C2: when any line of record_sale (first, middle or last) asks for more
\* than the product's on-hand quantity, the call fails and nothing is
\* written: every quantity is unchanged and no header, line or movement is
\* created.
C2_InsufficientLineRejectsWholeSale ==
    (/\ last.op = "record_sale"
     /\ \E k \in DOMAIN last.args.items : Insufficient(pre, last.args.items, k))
        => /\ last.status = "ValueError"
           /\ last.ret = NULL
           /\ Quantities(db) = Quantities(pre)
           /\ db.sales = pre.sales
           /\ db.sale_lines = pre.sale_lines
           /\ db.stock_movements = pre.stock_movements
           /\ db = pre

\* C2 witness: a three-line sale rejected because of its middle line only.
C2_Witness ==
    /\ last.op = "record_sale"
    /\ Len(last.args.items) = 3
    /\ ~Insufficient(pre, last.args.items, 1)
    /\ Insufficient(pre, last.args.items, 2)
    /\ ~Insufficient(pre, last.args.items, 3)
    /\ last.args.items[1].product_id \in DOMAIN pre.products
    /\ last.args.items[3].product_id \in DOMAIN pre.products
    /\ last.status = "ValueError"
    /\ db = pre

\* C3: no operation changes the quantity of a product without appending
\* movements of that product that add up to the same delta (so that the signed
\* sum of a product's movements follows its quantity).
C3_QuantityChangeHasMovement ==
    \A p \in DOMAIN pre.products \cap DOMAIN db.products :
        /\ IsPrefix(pre.stock_movements, db.stock_movements)
        /\ OnHand(db, p) - OnHand(pre, p) =
               Amount([i \in DOMAIN Appended(pre.stock_movements, db.stock_movements) |->
                   LET m == Appended(pre.stock_movements, db.stock_movements)[i]
                   IN  [quantity |-> IF m.product_id = p THEN m.quantity ELSE 0,
                        price |-> 1]])

\* C4: a record_purchase or record_sale that fails, also after it has applied
\* some of its lines, leaves every quantity and purchase price as before the
\* call and no header, line or movement of the attempt.
C4_FailedTransactionLeavesNoTrace ==
    (last.op \in {"record_purchase", "record_sale"} /\ last.status # "ok")
        => /\ Quantities(db) = Quantities(pre)
           /\ PurchasePrices(db) = PurchasePrices(pre)
           /\ db.purchases = pre.purchases
           /\ db.purchase_lines = pre.purchase_lines
           /\ db.sales = pre.sales
           /\ db.sale_lines = pre.sale_lines
           /\ db.stock_movements = pre.stock_movements

\* C4 witness: a purchase whose first line was applied to an existing product
\* and whose second line names a product that does not exist.
C4_Witness ==
    /\ last.op = "record_purchase"
    /\ last.status = "IntegrityError"
    /\ last.args.fault = 0
    /\ Len(last.args.items) >= 2
    /\ last.args.items[1].product_id \in DOMAIN pre.products
    /\ last.args.items[2].product_id \notin DOMAIN pre.products
    /\ db = pre

\* C5: sales running on concurrent connections never oversell: under every
\* interleaving the quantity of every product stays >= 0 (every product starts
\* at a quantity >= 0 and each sale is one line of a positive quantity).
C5_ConcurrentSalesNeverOversell ==
    \A p \in DOMAIN db.products : OnHand(db, p) >= 0

\* C6: the total_amount of every stored purchase header and sale header is
\* the sum of quantity x price over the lines that header owns.
C6_HeaderTotalIsSumOfLines ==
    /\ \A h \in DOMAIN db.purchases :
           db.purchases[h].total_amount = Amount(PurchaseLinesOf(db, h))
    /\ \A h \in DOMAIN db.sales :
           db.sales[h].total_amount = Amount(SaleLinesOf(db, h))

\* C6 witness: a purchase header and a sale header, each with a line and a
\* total that is not the default.
C6_Witness ==
    /\ \E h \in DOMAIN db.purchases :
           PurchaseLinesOf(db, h) # << >> /\ db.purchases[h].total_amount # 0
    /\ \E h \in DOMAIN db.sales :
           SaleLinesOf(db, h) # << >> /\ db.sales[h].total_amount # 0

\* C7: a successful record_purchase creates exactly one header and one line
\* per item, raises each product's quantity by the summed quantity of the
\* lines naming it, appends one IN movement of +quantity per line whose note
\* names the new header, and returns the new header's id.
C7_PurchaseEffect ==
    (last.op = "record_purchase" /\ last.status = "ok") =>
        LET items == last.args.items
            id == Len(pre.purchases) + 1
        IN  /\ last.ret = id
            /\ Len(db.purchases) = id
            /\ IsPrefix(pre.purchases, db.purchases)
            /\ db.purchases[id].supplier_id = last.args.supplier_id
            /\ IsPrefix(pre.purchase_lines, db.purchase_lines)
            /\ Appended(pre.purchase_lines, db.purchase_lines) =
                   [i \in 1 .. Len(items) |->
                       [purchase_id |-> id,
                        product_id  |-> items[i].product_id,
                        quantity    |-> items[i].qty,
                        price       |-> items[i].price]]
            /\ DOMAIN db.products = DOMAIN pre.products
            /\ \A p \in DOMAIN pre.products :
                   OnHand(db, p) = OnHand(pre, p) + QtyNaming(items, p)
            /\ IsPrefix(pre.stock_movements, db.stock_movements)
            /\ Appended(pre.stock_movements, db.stock_movements) =
                   [i \in 1 .. Len(items) |->
                       [product_id    |-> items[i].product_id,
                        quantity      |-> items[i].qty,
                        movement_type |-> "IN",
                        note          |-> <<"Purchase #", id>>,
                        created_at    |-> pre.now]]
            /\ db.sales = pre.sales
            /\ db.sale_lines = pre.sale_lines

\* C7 witness: a committed purchase of two lines naming one product that
\* already had stock.
C7_Witness ==
    /\ last.op = "record_purchase"
    /\ last.status = "ok"
    /\ Len(last.args.items) = 2
    /\ last.args.items[1].product_id = last.args.items[2].product_id
    /\ OnHand(pre, last.args.items[1].product_id) > 0
    /\ OnHand(db, last.args.items[1].product_id) >
           OnHand(pre, last.args.items[1].product_id)

\* C8: a successful record_sale creates exactly one header and one line per
\* item, lowers each product's quantity by the summed quantity of the lines
\* naming it, appends one OUT movement of -quantity per line, returns the new
\* header's id and leaves every purchase price unchanged.
C8_SaleEffect ==
    (last.op = "record_sale" /\ last.status = "ok") =>
        LET items == last.args.items
            id == Len(pre.sales) + 1
        IN  /\ last.ret = id
            /\ Len(db.sales) = id
            /\ IsPrefix(pre.sales, db.sales)
            /\ db.sales[id].customer_id = last.args.customer_id
            /\ IsPrefix(pre.sale_lines, db.sale_lines)
            /\ Appended(pre.sale_lines, db.sale_lines) =
                   [i \in 1 .. Len(items) |->
                       [sale_id    |-> id,
                        product_id |-> items[i].product_id,
                        quantity   |-> items[i].qty,
                        price      |-> items[i].price]]
            /\ DOMAIN db.products = DOMAIN pre.products
            /\ \A p \in DOMAIN pre.products :
                   OnHand(db, p) = OnHand(pre, p) - QtyNaming(items, p)
            /\ IsPrefix(pre.stock_movements, db.stock_movements)
            /\ Appended(pre.stock_movements, db.stock_movements) =
                   [i \in 1 .. Len(items) |->
                       [product_id    |-> items[i].product_id,
                        quantity      |-> 0 - items[i].qty,
                        movement_type |-> "OUT",
                        note          |-> <<"Sale #", id>>,
                        created_at    |-> pre.now]]
            /\ PurchasePrices(db) = PurchasePrices(pre)
            /\ db.purchases = pre.purchases
            /\ db.purchase_lines = pre.purchase_lines

\* C8 witness: a committed sale of two lines naming two different products.
C8_Witness ==
    /\ last.op = "record_sale"
    /\ last.status = "ok"
    /\ Len(last.args.items) = 2
    /\ last.args.items[1].product_id # last.args.items[2].product_id
    /\ \A k \in 1 .. 2 : last.args.items[k].qty > 0
    /\ Len(db.stock_movements) = Len(pre.stock_movements) + 2

\* C9: record_purchase and record_sale reject a line list holding a
\* non-positive quantity or a negative price: the call fails and nothing is
\* stored.
C9_InvalidLineRejected ==
    (/\ last.op \in {"record_purchase", "record_sale"}
     /\ \E k \in DOMAIN last.args.items :
            last.args.items[k].qty <= 0 \/ last.args.items[k].price < 0)
        => last.status # "ok" /\ db = pre

\* C10: every stored purchase header and sale header owns at least one line
\* (an empty line list is rejected and creates no header).
C10_HeaderOwnsALine ==
    /\ \A h \in DOMAIN db.purchases : PurchaseLinesOf(db, h) # << >>
    /\ \A h \in DOMAIN db.sales : SaleLinesOf(db, h) # << >>

\* C11: adjust_stock on an existing product succeeds whatever the sign of the
\* delta and whatever the quantity: that product's quantity changes by exactly
\* the delta (it may become negative), exactly one ADJUST movement with that
\* delta and note is appended for it, and nothing else changes.
C11_AdjustStockEffect ==
    (last.op = "adjust_stock" /\ last.args.product_id \in DOMAIN pre.products) =>
        LET p == last.args.product_id
            delta == last.args.quantity_delta
        IN  /\ last.status = "ok"
            /\ DOMAIN db.products = DOMAIN pre.products
            /\ OnHand(db, p) = OnHand(pre, p) + delta
            /\ db.products[p] = [pre.products[p] EXCEPT !.quantity = @ + delta]
            /\ \A q \in DOMAIN pre.products \ {p} : db.products[q] = pre.products[q]
            /\ db.stock_movements =
                   Append(pre.stock_movements,
                          [product_id    |-> p,
                           quantity      |-> delta,
                           movement_type |-> "ADJUST",
                           note          |-> last.args.note,
                           created_at    |-> pre.now])
            /\ db.purchases = pre.purchases
            /\ db.purchase_lines = pre.purchase_lines
            /\ db.sales = pre.sales
            /\ db.sale_lines = pre.sale_lines

\* C11 witness: a negative adjustment that takes one of two products below
\* zero.
C11_Witness ==
    /\ last.op = "adjust_stock"
    /\ last.status = "ok"
    /\ last.args.quantity_delta < 0
    /\ Cardinality(DOMAIN pre.products) = 2
    /\ last.args.product_id \in DOMAIN pre.products
    /\ OnHand(pre, last.args.product_id) >= 0
    /\ OnHand(db, last.args.product_id) < 0

\* The product, supplier or customer reference that a call passes and that
\* does not exist in d.
MissingReference(d, op, args) ==
    CASE op = "adjust_stock" -> args.product_id \notin DOMAIN d.products
      [] op = "record_purchase" ->
            \/ \E k \in DOMAIN args.items : args.items[k].product_id \notin DOMAIN d.products
            \/ args.supplier_id # NULL /\ args.supplier_id \notin 1 .. d.suppliers
      [] op = "record_sale" ->
            \/ \E k \in DOMAIN args.items : args.items[k].product_id \notin DOMAIN d.products
            \/ args.customer_id # NULL /\ args.customer_id \notin 1 .. d.customers
      [] OTHER -> FALSE

\* C12: record_purchase, record_sale and adjust_stock called with a product
\* id, supplier id or customer id that does not exist end with an error and
\* leave the stored state as it was: no header, line or movement, no quantity
\* change.
C12_MissingReferenceFailsWithoutEffect ==
    (/\ last.op \in {"record_purchase", "record_sale", "adjust_stock"}
     /\ MissingReference(pre, last.op, last.args))
        => /\ last.status # "ok"
           /\ db = pre

\* C12 witness: adjust_stock on a product id that does not exist, while
\* another product does.
C12_Witness ==
    /\ last.op = "adjust_stock"
    /\ last.args.product_id \notin DOMAIN pre.products
    /\ DOMAIN pre.products # {}
    /\ last.status = "IntegrityError"
    /\ db = pre

\* The product id that the ValueError of record_sale names: the one of the
\* line the availability loop stopped at.
sale_error_product(d, items) == items[sale_check(d, items, 1)].product_id

\* C13: when record_sale is rejected with the insufficient-stock error, the
\* product the error names exists and the line the error is about (the first
\* failing line in input order) asks for more than that product's on-hand
\* quantity.
C13_InsufficientStockNamesShortProduct ==
    (last.op = "record_sale" /\ last.status = "ValueError") =>
        LET items == last.args.items
            k == sale_check(pre, items, 1)
            p == sale_error_product(pre, items)
        IN  /\ p \in DOMAIN pre.products
            /\ OnHand(pre, p) < items[k].qty
            /\ \A j \in 1 .. k - 1 : ~Insufficient(pre, items, j)

\* C14: the movement log is append-only: no step of the service removes or
\* changes a stored movement; the log before a step is a prefix of the log
\* after it.
C14_MovementLogAppendOnly ==
    [][IsPrefix(db.stock_movements, db'.stock_movements)]_vars

\* C14 witness: delete_product refused for a product that has movements; the
\* log is as before.
C14_Witness ==
    /\ last.op = "delete_product"
    /\ last.status = "IntegrityError"
    /\ \E i \in DOMAIN pre.stock_movements :
           pre.stock_movements[i].product_id = last.args.product_id
    /\ db.stock_movements = pre.stock_movements

\* C15: low_stock returns exactly the products whose quantity is <= their
\* min_quantity (equality included, every other product left out), each once,
\* in ascending order of quantity.
C15_LowStockExactAndAscending ==
    last.op = "low_stock" =>
        LET rows == last.ret
        IN  /\ {rows[i] : i \in DOMAIN rows} =
                   {p \in DOMAIN db.products :
                       db.products[p].quantity <= db.products[p].min_quantity}
            /\ \A i, j \in DOMAIN rows : i # j => rows[i] # rows[j]
            /\ \A i \in 1 .. Len(rows) - 1 :
                   OnHand(db, rows[i]) <= OnHand(db, rows[i + 1])

\* C15 witness: a product at exactly its min_quantity is listed and a
\* product above its min_quantity is not.
C15_Witness ==
    /\ last.op = "low_stock"
    /\ Len(last.ret) = 1
    /\ OnHand(db, last.ret[1]) = db.products[last.ret[1]].min_quantity
    /\ \E p \in DOMAIN db.products :
           db.products[p].quantity > db.products[p].min_quantity

\* Movement i of d is more recent than movement j: a later created_at, or the
\* same created_at and a higher id.
MoreRecent(d, i, j) ==
    \/ d.stock_movements[i].created_at > d.stock_movements[j].created_at
    \/ /\ d.stock_movements[i].created_at = d.stock_movements[j].created_at
       /\ i > j

\* C18: list_stock_movements(limit) with limit >= 0 returns min(limit, number
\* of movements) rows; they are stored movements of any product, each with the
\* name of its product, the most recent first (equal timestamps by descending
\* id), and every movement left out is older than every movement returned.
C18_MovementHistoryNewestFirst ==
    (last.op = "list_stock_movements" /\ last.args.limit >= 0) =>
        LET rows == last.ret
            n == Len(db.stock_movements)
            returned == {rows[k].id : k \in DOMAIN rows}
        IN  /\ Len(rows) = IF last.args.limit < n THEN last.args.limit ELSE n
            /\ \A k \in DOMAIN rows :
                   /\ rows[k].id \in DOMAIN db.stock_movements
                   /\ rows[k].movement = db.stock_movements[rows[k].id]
                   /\ rows[k].product_name =
                          db.products[rows[k].movement.product_id].name
            /\ \A k \in 1 .. Len(rows) - 1 :
                   MoreRecent(db, rows[k].id, rows[k + 1].id)
            /\ \A i \in DOMAIN db.stock_movements \ returned :
                   \A k \in DOMAIN rows : MoreRecent(db, rows[k].id, i)

\* C18 witness: two movements of two products written at different clock
\* readings, and a limit of 1 that returns the later one only.
C18_Witness ==
    /\ last.op = "list_stock_movements"
    /\ last.args.limit = 1
    /\ Len(db.stock_movements) = 2
    /\ db.stock_movements[1].product_id # db.stock_movements[2].product_id
    /\ db.stock_movements[1].created_at < db.stock_movements[2].created_at
    /\ Len(last.ret) = 1
    /\ last.ret[1].id = 2

\* The headers that a totals report reads.
ReportedHeaders == IF last.op = "sales_totals" THEN db.sales ELSE db.purchases

\* C16: sales_totals(N) and purchase_totals(N) return (date, total) pairs in
\* strictly ascending date order, so one pair per date at most; every pair is
\* for a date that has a header and its total is the sum of the total_amount
\* of all headers of that date; every date after today - N that has a header
\* has its pair.
C16_DailyTotalsGroupedByDate ==
    last.op \in {"sales_totals", "purchase_totals"} =>
        LET rows == last.ret
            headers == ReportedHeaders
            on(day) == SelectSeq(headers, LAMBDA h : DATE(h.date) = day)
        IN  /\ \A k \in DOMAIN rows :
                   /\ on(rows[k].d) # << >>
                   /\ rows[k].total = sum_total_amount(on(rows[k].d))
            /\ \A k \in 1 .. Len(rows) - 1 : rows[k].d < rows[k + 1].d
            /\ \A i \in DOMAIN headers :
                   DATE(headers[i].date) > DATE(db.now) - last.args.days
                       => \E k \in DOMAIN rows : rows[k].d = DATE(headers[i].date)

\* C16 witness: two sales written at different times of the same day, reported
\* as one pair holding the sum of both.
C16_Witness ==
    /\ last.op = "sales_totals"
    /\ Len(db.sales) = 2
    /\ db.sales[1].date # db.sales[2].date
    /\ DATE(db.sales[1].date) = DATE(db.sales[2].date)
    /\ db.sales[1].total_amount > 0
    /\ Len(last.ret) = 1
    /\ last.ret[1].total = db.sales[1].total_amount + db.sales[2].total_amount

\* C17: sales_totals(N) and purchase_totals(N), N >= 1, cover the last N days
\* only: the result has at most N pairs, all of them for one of the N calendar
\* dates that end today.
C17_TotalsCoverLastNDays ==
    (last.op \in {"sales_totals", "purchase_totals"} /\ last.args.days >= 1) =>
        /\ Len(last.ret) <= last.args.days
        /\ \A k \in DOMAIN last.ret :
               /\ last.ret[k].d > DATE(db.now) - last.args.days
               /\ last.ret[k].d <= DATE(db.now)

\* C19: metrics reports the number of products, suppliers and customers that
\* exist, revenue = the sum of the totals of all sale headers and purchases =
\* the sum of the totals of all purchase headers, which are the sums of
\* quantity x price over all stored sale lines and purchase lines (0 when
\* there are none); a purchase or sale that failed changes none of the
\* figures.
C19_MetricsCountsAndSums ==
    /\ last.op = "metrics" =>
           /\ last.ret.products = Cardinality(DOMAIN db.products)
           /\ last.ret.suppliers = db.suppliers
           /\ last.ret.customers = db.customers
           /\ last.ret.revenue = sum_total_amount(db.sales)
           /\ last.ret.revenue = Amount(db.sale_lines)
           /\ last.ret.purchases = sum_total_amount(db.purchases)
           /\ last.ret.purchases = Amount(db.purchase_lines)
    /\ (last.op \in {"record_purchase", "record_sale"} /\ last.status # "ok") =>
           metrics(db) = metrics(pre)

\* C19 witness: the figures of a database with two products, a supplier, a
\* customer, a purchase and a sale of different totals.
C19_Witness ==
    /\ last.op = "metrics"
    /\ last.ret.products = 2
    /\ last.ret.suppliers = 1
    /\ last.ret.customers = 1
    /\ last.ret.revenue > 0
    /\ last.ret.purchases > 0

\* C20: add_product with a SKU that a product already has, and add_category
\* with a name that a category already has, return False and store nothing: no
\* product or category row and no movement.
C20_DuplicateKeyCreatesNothing ==
    /\ (/\ last.op = "add_product"
        /\ \E p \in DOMAIN pre.products : pre.products[p].sku = last.args.sku)
           => last.ret = FALSE /\ db = pre
    /\ (/\ last.op = "add_category"
        /\ \E i \in DOMAIN pre.categories : pre.categories[i] = last.args.name)
           => last.ret = FALSE /\ db = pre

\* C20 witness: add_product refused for a used SKU although it came with a
\* quantity to stock, in a database that has a category.
C20_Witness ==
    /\ last.op = "add_product"
    /\ \E p \in DOMAIN pre.products : pre.products[p].sku = last.args.sku
    /\ last.args.quantity # 0
    /\ pre.categories # << >>
    /\ last.ret = FALSE
    /\ db = pre

\* The index of the last line of items that names product p, 0 when none.
LastNaming(items, p) ==
    LET ks == {k \in DOMAIN items : items[k].product_id = p}
    IN  IF ks = {} THEN 0 ELSE CHOOSE k \in ks : \A j \in ks : j <= k

\* C21: after a successful record_purchase the purchase price of every product
\* named on its lines is the unit cost of the last line, in input order, that
\* names it (also when several lines name it); every product that is not named
\* keeps its purchase price.
C21_LastLineCostWins ==
    (last.op = "record_purchase" /\ last.status = "ok") =>
        /\ DOMAIN db.products = DOMAIN pre.products
        /\ \A p \in DOMAIN pre.products :
               LET k == LastNaming(last.args.items, p)
               IN  db.products[p].purchase_price =
                       IF k = 0 THEN pre.products[p].purchase_price
                       ELSE last.args.items[k].price

\* C21 witness: a purchase whose first line names a product at a higher cost
\* than its last line does, which leaves the lower cost, while a second product
\* is not named and keeps its price.
C21_Witness ==
    /\ last.op = "record_purchase"
    /\ last.status = "ok"
    /\ Len(last.args.items) >= 2
    /\ LET items == last.args.items
           p == items[1].product_id
       IN  /\ items[Len(items)].product_id = p
           /\ items[1].price > items[Len(items)].price
           /\ db.products[p].purchase_price = items[Len(items)].price
           /\ \E q \in DOMAIN pre.products :
                  /\ LastNaming(items, q) = 0
                  /\ db.products[q].purchase_price = pre.products[q].purchase_price

\* The change that the handler run by connection c makes to the quantity of
\* product p when it commits.
Delta(c, p) ==
    CASE conn[c].op = "record_purchase" -> QtyNaming(conn[c].items, p)
      [] conn[c].op = "record_sale" -> 0 - QtyNaming(conn[c].items, p)
      [] conn[c].op = "adjust_stock" ->
            IF conn[c].args.product_id = p THEN conn[c].args.quantity_delta ELSE 0
      [] OTHER -> 0

Committed(c) == conn[c].pc = "done" /\ conn[c].status = "ok"

RECURSIVE CommittedDelta(_, _)
\* The summed change to product p of the connections 1 .. n that committed.
CommittedDelta(n, p) ==
    IF n = 0 THEN 0
    ELSE (IF Committed(n) THEN Delta(n, p) ELSE 0) + CommittedDelta(n - 1, p)

\* C22: record_purchase, record_sale and adjust_stock running on concurrent
\* connections never lose an update: at every moment, so also once all of them
\* have ended, the stored quantity of every product is its quantity before they
\* started plus the summed deltas of the operations that committed.
C22_NoLostUpdate ==
    \A p \in DOMAIN pre.products :
        /\ p \in DOMAIN db.products
        /\ OnHand(db, p) = OnHand(pre, p) + CommittedDelta(MaxConns, p)

\* C22 witness: a sale and an adjustment of the same product, both committed;
\* the sale checked the stock before the adjustment was stored and wrote after
\* it, which the negative quantity shows.
C22_Witness ==
    \E a, b \in Conns, p \in DOMAIN pre.products :
        /\ \A c \in Conns : conn[c].pc = "done"
        /\ Committed(a) /\ conn[a].op = "record_sale"
        /\ Committed(b) /\ conn[b].op = "adjust_stock"
        /\ Delta(a, p) < 0
        /\ Delta(b, p) < 0
        /\ OnHand(pre, p) >= 0
        /\ OnHand(db, p) < 0
        /\ OnHand(db, p) = OnHand(pre, p) + Delta(a, p) + Delta(b, p)

Reports == {"low_stock", "list_stock_movements", "sales_totals",
            "purchase_totals", "metrics"}

\* Connection c has run its report.
HasRead(c) == conn[c].pc = "done" /\ conn[c].op \in Reports

RECURSIVE MovedQty(_, _)
\* The summed quantity of the movements of product p among movements.
MovedQty(movements, p) ==
    IF movements = << >> THEN 0
    ELSE (IF Head(movements).product_id = p THEN Head(movements).quantity ELSE 0)
             + MovedQty(Tail(movements), p)

\* The rows a SELECT read show whole operations only: every header with its
\* lines and with their sum as its total, every quantity change since base
\* with the movements that add up to it.
WholeOperations(view, base) ==
    /\ \A h \in DOMAIN view.purchases :
           /\ PurchaseLinesOf(view, h) # << >>
           /\ view.purchases[h].total_amount = Amount(PurchaseLinesOf(view, h))
    /\ \A h \in DOMAIN view.sales :
           /\ SaleLinesOf(view, h) # << >>
           /\ view.sales[h].total_amount = Amount(SaleLinesOf(view, h))
    /\ IsPrefix(base.stock_movements, view.stock_movements)
    /\ \A p \in DOMAIN base.products :
           /\ p \in DOMAIN view.products
           /\ OnHand(view, p) - OnHand(base, p) =
                  MovedQty(Appended(base.stock_movements, view.stock_movements), p)

\* C23: a report (metrics, low_stock, list_stock_movements, sales_totals,
\* purchase_totals) that runs while record_purchase, record_sale or
\* adjust_stock run on other connections reads none or all of the effects of
\* each of them: no header without its lines or with a total other than the sum
\* of its lines, no quantity change without its movement; the totals it
\* returns are sums of whole headers.
C23_ReaderSeesWholeOperations ==
    \A c \in Conns :
        HasRead(c) =>
            /\ WholeOperations(conn[c].tx, pre)
            /\ conn[c].op = "sales_totals" =>
                   \A k \in DOMAIN conn[c].ret :
                       conn[c].ret[k].total = Amount(conn[c].tx.sale_lines)
            /\ conn[c].op = "purchase_totals" =>
                   \A k \in DOMAIN conn[c].ret :
                       conn[c].ret[k].total = Amount(conn[c].tx.purchase_lines)
            /\ conn[c].op = "metrics" =>
                   /\ conn[c].ret.revenue = Amount(conn[c].tx.sale_lines)
                   /\ conn[c].ret.purchases = Amount(conn[c].tx.purchase_lines)

\* C23 witness: purchase_totals ran while a record_purchase on the other
\* connection had written its header and not yet committed; it returned no
\* pair, and the purchase has committed since.
C23_Witness ==
    \E r, w \in Conns :
        /\ HasRead(r)
        /\ conn[r].op = "purchase_totals"
        /\ conn[r].during = w
        /\ conn[w].op = "record_purchase"
        /\ Committed(w)
        /\ conn[r].ret = << >>
        /\ Len(db.purchases) = Len(conn[r].tx.purchases) + 1
        /\ purchase_totals(db, conn[r].args.days) # << >>

\* C24: in every reachable state every IN movement has a strictly positive
\* delta and every OUT movement a strictly negative one, whatever the arguments
\* of add_product, record_purchase and record_sale.
C24_MovementSignMatchesKind ==
    \A i \in DOMAIN db.stock_movements :
        LET m == db.stock_movements[i]
        IN  /\ m.movement_type = "IN" => m.quantity > 0
            /\ m.movement_type = "OUT" => m.quantity < 0

\* C25: add_product with initial quantity q stores one IN movement of delta q
\* for the new product when q # 0 and none when q = 0, so that the signed sum
\* of the movements of a product changed only by record_purchase, record_sale
\* and adjust_stock is its quantity; the product and its initial movement
\* become visible together: no committed state holds a product whose quantity
\* is not the sum of its movements.
C25_InitialStockVisibleWithProduct ==
    \A p \in DOMAIN db.products :
        OnHand(db, p) = MovedQty(db.stock_movements, p)

\* C26: referential integrity holds in every committed state: every movement,
\* purchase line and sale line names a product that exists and every line a
\* header that exists; delete_product on a product that has a movement or a
\* line fails and changes nothing.
C26_ReferentialIntegrity ==
    /\ \A i \in DOMAIN db.stock_movements :
           db.stock_movements[i].product_id \in DOMAIN db.products
    /\ \A i \in DOMAIN db.purchase_lines :
           /\ db.purchase_lines[i].product_id \in DOMAIN db.products
           /\ db.purchase_lines[i].purchase_id \in DOMAIN db.purchases
    /\ \A i \in DOMAIN db.sale_lines :
           /\ db.sale_lines[i].product_id \in DOMAIN db.products
           /\ db.sale_lines[i].sale_id \in DOMAIN db.sales
    /\ (/\ last.op = "delete_product"
        /\ product_referenced(pre, last.args.product_id))
           => last.status # "ok" /\ db = pre

\* C26 witness: delete_product refused for a product that a purchase line and
\* a sale line name, while an unreferenced product was deleted before.
C26_Witness ==
    /\ last.op = "delete_product"
    /\ last.status = "IntegrityError"
    /\ \E i \in DOMAIN pre.purchase_lines :
           pre.purchase_lines[i].product_id = last.args.product_id
    /\ \E i \in DOMAIN pre.sale_lines :
           pre.sale_lines[i].product_id = last.args.product_id
    /\ Cardinality(DOMAIN pre.products) < pre.seq_products
    /\ db = pre

====
